---- MODULE Spec2Model ----
(***************************************************************************)
(* A model of pkg/model/workflow.go: the workflow document model           *)
(* (Workflow.GetJob), the polymorphic field normalizer (Workflow.On,       *)
(* Job.Needs), the step descriptor (Step.Type, Step.GetEnv) and the matrix *)
(* expander (Job.GetMatrixes, commonKeysMatch).                            *)
(*                                                                         *)
(* Go maps are functions, Go slices are sequences, Go strings that the     *)
(* code inspects character by character are sequences of one-character     *)
(* strings.  Each method is one action; the receiver's fields it writes    *)
(* are primed, its return value is stored in a variable of its own.        *)
(***************************************************************************)
EXTENDS Integers, Sequences, FiniteSets, TLC

VARIABLES
    strategy,   \* Job.Strategy: [present, Matrix]; present = FALSE is the nil pointer
    called,     \* <<>> or <<s>>: the Strategy as the latest GetMatrixes call found it
    returned,   \* the values returned by the GetMatrixes calls so far, oldest first
    Jobs,       \* Workflow.Jobs: job id -> [Name]
    declared,   \* Workflow.Jobs as decoded, before any lookup
    looked,     \* the job ids GetJob has been called with and found
    got,        \* <<>> or <<r>>: what the latest GetJob call returned
    first,      \* job id -> the Name GetJob returned at the first lookup of the id
    RawOn,      \* Workflow.RawOn, a yaml.Node
    RawNeeds,   \* Job.RawNeeds, a yaml.Node
    onRet,      \* <<>> or <<v>>: what Workflow.On returned
    needsRet,   \* <<>> or <<v>>: what Job.Needs returned
    proc,       \* "running", or "exited" once log.Fatal has ended the process
    step,       \* a Step: [Run, Uses, Env, With]
    typeRet,    \* <<>> or <<t>>: what Step.Type returned
    envRet      \* <<>> or <<m>>: what Step.GetEnv returned

vars == <<strategy, called, returned, Jobs, declared, looked, got, first,
          RawOn, RawNeeds, onRet, needsRet, proc, step, typeRet, envRet>>

matrixVars == <<strategy, called, returned>>
jobVars    == <<Jobs, declared, looked, got, first>>
nodeVars   == <<RawOn, RawNeeds, onRet, needsRet, proc>>
stepVars   == <<step, typeRet, envRet>>

(***************************************************************************)
(* Generic helpers on Go maps and slices.                                  *)
(***************************************************************************)
EmptyMap == [k \in {} |-> 0]

\* delete(m, k)
delete(m, k) == [x \in DOMAIN m \ {k} |-> m[x]]

\* the elements of a slice
Range(s) == {s[i] : i \in DOMAIN s}

\* all sequences over S of length at most n
SeqUpTo(S, n) == UNION {[1..l -> S] : l \in 0..n}

\* all Go maps with keys among K and values in V
Maps(K, V) == UNION {[D -> V] : D \in SUBSET K}

\* the orders in which a range over a map with key set K may visit the keys
Orders(K) == {o \in [1..Cardinality(K) -> K] : Range(o) = K}

(***************************************************************************)
(* Bounds of the model.                                                    *)
(***************************************************************************)
MaxAxisLen == 2     \* longest candidate list of a matrix axis
MaxEntries == 2     \* include entries plus exclude entries of a matrix
MaxCalls   == 2     \* GetMatrixes calls on the job

(***************************************************************************)
(* Matrix expander.                                                        *)
(***************************************************************************)
\* The axes of a matrix in the order the product iterates them.
AxisOrder == <<"a", "b">>
\* The keys an include or exclude entry may carry: an axis and an extra key.
EntryKeys == {"a", "c"}
\* The values an include or exclude entry may carry.
EntryValues == {1, 2}

Entries == Maps(EntryKeys, EntryValues)

\* the candidate list 1, 2, ..., n of an axis
AxisList(n) == [i \in 1..n |-> i]

\* the matrixes of the model: axis "a", optionally axis "b", optionally the
\* reserved keys with MaxEntries entries between them
AxisMaps ==
    {[k \in D |-> AxisList(n[k])] : D \in {{"a"}, {"a", "b"}, {"b"}, {}},
                                     n \in [{"a", "b"} -> 0..MaxAxisLen]}

EntryLists ==
    {[k \in D |-> l[k]] :
        D \in SUBSET {"include", "exclude"},
        l \in {x \in [{"include", "exclude"} -> SeqUpTo(Entries, MaxEntries)] :
                  Len(x["include"]) + Len(x["exclude"]) <= MaxEntries}}

Matrixes == {ax @@ el : ax \in AxisMaps, el \in EntryLists}

\* common.CartesianProduct: one map per combination of one value per axis, in
\* the order of the declared lists, the first axis varying slowest
RECURSIVE cartN(_, _)
cartN(M, axes) ==
    IF axes = <<>> THEN <<EmptyMap>>
    ELSE LET k    == Head(axes)
             rest == cartN(M, Tail(axes))
             n    == Len(rest)
         IN  [i \in 1..(Len(M[k]) * n) |->
                 (k :> M[k][((i - 1) \div n) + 1]) @@ rest[((i - 1) % n) + 1]]

CartesianProduct(M) ==
    cartN(M, SelectSeq(AxisOrder, LAMBDA k : k \in DOMAIN M))

\* a variant of commonKeysMatch that wants every key of b in a
allKeysMatch(a, b) ==
    \A bKey \in DOMAIN b : bKey \in DOMAIN a /\ a[bKey] = b[bKey]

\* commonKeysMatch
commonKeysMatch(a, b) ==
    \A aKey \in DOMAIN a : ~(aKey \in DOMAIN b /\ a[aKey] # b[aKey])

\* the slice collected from j.Strategy.Matrix[key]: empty when the key is absent
Collect(M, key) == IF key \in DOMAIN M THEN M[key] ELSE <<>>

\* a variant of the exclude loop that skips only when every exclude matches
SkippedByAll(matrix, excludes) ==
    \A i \in DOMAIN excludes : commonKeysMatch(matrix, excludes[i])

\* the exclude loop: TRUE when the candidate is skipped (continue MATRIX)
Skipped(matrix, excludes) ==
    \E i \in DOMAIN excludes : commonKeysMatch(matrix, excludes[i])

\* for k, v := range include { matrix[k] = v }
Merge(matrix, include) == include @@ matrix

\* a variant of the include loop that merges every include untested
RECURSIVE ApplyAllIncludes(_, _)
ApplyAllIncludes(matrix, includes) ==
    IF includes = <<>> THEN matrix
    ELSE ApplyAllIncludes(Merge(matrix, Head(includes)), Tail(includes))

\* the include loop: each include is tested against the candidate as the
\* includes before it left it
RECURSIVE ApplyIncludes(_, _)
ApplyIncludes(matrix, includes) ==
    IF includes = <<>> THEN matrix
    ELSE LET include == Head(includes)
         IN  ApplyIncludes(IF commonKeysMatch(matrix, include)
                              THEN Merge(matrix, include)
                              ELSE matrix,
                           Tail(includes))

\* the MATRIX loop over the product
RECURSIVE Expand(_, _, _)
Expand(matrixProduct, includes, excludes) ==
    IF matrixProduct = <<>> THEN <<>>
    ELSE LET matrix == Head(matrixProduct)
             rest   == Expand(Tail(matrixProduct), includes, excludes)
         IN  IF Skipped(matrix, excludes) THEN rest
             ELSE <<ApplyIncludes(matrix, includes)>> \o rest

\* j.Strategy.Matrix after the two deletes
Stripped(M) == delete(delete(M, "include"), "exclude")

\* the value GetMatrixes returns
Variants(s) ==
    IF s.present
       THEN Expand(CartesianProduct(Stripped(s.Matrix)),
                   Collect(s.Matrix, "include"),
                   Collect(s.Matrix, "exclude"))
       ELSE <<EmptyMap>>

\* Job.GetMatrixes
GetMatrixes ==
    /\ Len(returned) < MaxCalls
    /\ called' = <<strategy>>
    /\ returned' = Append(returned, Variants(strategy))
    /\ strategy' = IF strategy.present
                      THEN [strategy EXCEPT !.Matrix = Stripped(@)]
                      ELSE strategy
    /\ UNCHANGED <<jobVars, nodeVars, stepVars>>

(***************************************************************************)
(* Idle values of the components a specification does not exercise.        *)
(***************************************************************************)
IdleMatrix ==
    /\ strategy = [present |-> FALSE, Matrix |-> EmptyMap]
    /\ called = <<>>
    /\ returned = <<>>

IdleJobs ==
    /\ Jobs = EmptyMap
    /\ declared = EmptyMap
    /\ looked = {}
    /\ got = <<>>
    /\ first = EmptyMap

IdleNodes ==
    /\ RawOn = [Kind |-> "Zero", Tag |-> "", Value |-> "", Content |-> <<>>]
    /\ RawNeeds = [Kind |-> "Zero", Tag |-> "", Value |-> "", Content |-> <<>>]
    /\ onRet = <<>>
    /\ needsRet = <<>>
    /\ proc = "running"

IdleStep ==
    /\ step = [Run |-> <<>>, Uses |-> <<>>, Env |-> EmptyMap, With |-> EmptyMap]
    /\ typeRet = <<>>
    /\ envRet = <<>>

(***************************************************************************)
(* The matrix expander's specification.                                    *)
(***************************************************************************)
InitMatrix ==
    /\ strategy \in {[present |-> FALSE, Matrix |-> EmptyMap]}
                    \cup {[present |-> TRUE, Matrix |-> M] : M \in Matrixes}
    /\ called = <<>>
    /\ returned = <<>>
    /\ IdleJobs /\ IdleNodes /\ IdleStep

NextMatrix == GetMatrixes

SpecMatrix == InitMatrix /\ [][NextMatrix]_vars

(***************************************************************************)
(* Step descriptor.  Strings the code inspects are sequences of characters.*)
(***************************************************************************)
MaxWith == 2        \* input parameters under `with`

LowerCase == <<"a", "b", "c", "d", "e", "f", "g", "h", "i", "j", "k", "l", "m",
               "n", "o", "p", "q", "r", "s", "t", "u", "v", "w", "x", "y", "z">>
UpperCase == <<"A", "B", "C", "D", "E", "F", "G", "H", "I", "J", "K", "L", "M",
               "N", "O", "P", "Q", "R", "S", "T", "U", "V", "W", "X", "Y", "Z">>
Digits    == {"0", "1", "2", "3", "4", "5", "6", "7", "8", "9"}

\* strings.ToUpper on one character
ToUpperChar(c) ==
    IF \E i \in DOMAIN LowerCase : LowerCase[i] = c
       THEN UpperCase[CHOOSE i \in DOMAIN LowerCase : LowerCase[i] = c]
       ELSE c

\* strings.ToUpper
ToUpper(s) == [i \in DOMAIN s |-> ToUpperChar(s[i])]

\* strings.HasPrefix
HasPrefix(s, prefix) ==
    Len(s) >= Len(prefix) /\ SubSeq(s, 1, Len(prefix)) = prefix

\* the class of the pattern "[^A-Z0-9]", without the hyphen
InClassNoHyphen(c) == c \in Range(UpperCase) \cup Digits

\* the character class the pattern "[^A-Z0-9-]" negates
InClass(c) == c \in Range(UpperCase) \cup Digits \cup {"-"}

\* regexp.MustCompile("[^A-Z0-9-]").ReplaceAllString(s, "_")
ReplaceAllString(s) == [i \in DOMAIN s |-> IF InClass(s[i]) THEN s[i] ELSE "_"]

\* envKey of GetEnv for the input parameter k
EnvKey(k) == ToUpper(<<"I", "N", "P", "U", "T", "_">> \o ReplaceAllString(ToUpper(k)))

\* the second loop of GetEnv, visiting the keys of s.With in the given order
RECURSIVE PutInputs(_, _, _)
PutInputs(rtnEnv, With, order) ==
    IF order = <<>> THEN rtnEnv
    ELSE LET k == Head(order)
         IN  PutInputs((EnvKey(k) :> With[k]) @@ rtnEnv, With, Tail(order))

\* Step.GetEnv: the range over s.With visits its keys in an unspecified order
GetEnv ==
    /\ \E order \in Orders(DOMAIN step.With) :
          envRet' = <<PutInputs(step.Env, step.With, order)>>
    /\ UNCHANGED <<step, typeRet, matrixVars, jobVars, nodeVars>>

StepTypeRun == 0
StepTypeUsesDockerURL == 1
StepTypeUsesActionLocal == 2
StepTypeUsesActionRemote == 3

DockerPrefix == <<"d", "o", "c", "k", "e", "r", ":", "/", "/">>
LocalPrefix  == <<".", "/">>

\* a variant of Step.Type that tests `uses` before `run`
StepTypeUsesFirst(s) ==
    IF HasPrefix(s.Uses, DockerPrefix) THEN StepTypeUsesDockerURL
    ELSE IF HasPrefix(s.Uses, LocalPrefix) THEN StepTypeUsesActionLocal
    ELSE IF s.Run # <<>> THEN StepTypeRun
    ELSE StepTypeUsesActionRemote

\* the value Step.Type returns
StepTypeOf(s) ==
    IF s.Run # <<>> THEN StepTypeRun
    ELSE IF HasPrefix(s.Uses, DockerPrefix) THEN StepTypeUsesDockerURL
    ELSE IF HasPrefix(s.Uses, LocalPrefix) THEN StepTypeUsesActionLocal
    ELSE StepTypeUsesActionRemote

\* Step.Type
Type ==
    /\ typeRet' = <<StepTypeOf(step)>>
    /\ UNCHANGED <<step, envRet, matrixVars, jobVars, nodeVars>>

NodeVersion == <<"n", "o", "d", "e", "-", "v", "e", "r", "s", "i", "o", "n">>

RunBodies == {<<>>, <<"e", "c", "h", "o", " ", "h", "i">>}
UsesRefs ==
    {<<>>,
     <<"d", "o", "c", "k", "e", "r", ":", "/", "/", "a", "l", "p", "i", "n", "e">>,
     <<".", "/", "l", "o", "c", "a", "l", "-", "a", "c", "t", "i", "o", "n">>,
     <<"a", "c", "t", "i", "o", "n", "s", "/", "c", "h", "e", "c", "k", "o", "u", "t", "@", "v", "3">>,
     <<"d", "o", "c", "k", "e", "r", ":", "/", "x">>,
     <<"d", "o", "c", "k", "e", "r", ":", "/", "/">>,
     <<".", "/">>,
     <<"a", "/", ".", "/", "b">>}
WithNames == {NodeVersion, <<"a", ".", "b">>, <<"a", "_", "b">>, <<"A", " ", "b", "9">>}
EnvNames == {<<"C", "I">>, <<"I", "N", "P", "U", "T", "_", "A", "_", "B">>}

InitStep ==
    /\ step \in {[Run |-> r, Uses |-> u, Env |-> e, With |-> w] :
                    r \in RunBodies, u \in UsesRefs,
                    e \in Maps(EnvNames, {"env"}),
                    w \in {m \in Maps(WithNames, {"16", "lts"}) :
                              Cardinality(DOMAIN m) <= MaxWith}}
    /\ typeRet = <<>>
    /\ envRet = <<>>
    /\ IdleMatrix /\ IdleJobs /\ IdleNodes

NextStep == Type \/ GetEnv

SpecStep == InitStep /\ [][NextStep]_vars

(***************************************************************************)
(* Workflow document model: job lookup.                                    *)
(***************************************************************************)
JobIDs   == {"build", "test", "deploy"}
JobNames == {"", "Build", "test"}

\* a variant of the lazy default that overwrites a declared name
AlwaysNamed(j, id) == [j EXCEPT !.Name = id]

\* if j.Name == "" { j.Name = id }
Named(j, id) == IF j.Name = "" THEN [j EXCEPT !.Name = id] ELSE j

\* Workflow.GetJob: the loop over w.Jobs finds the key equal to jobID or ends
GetJob(jobID) ==
    /\ IF \E id \in DOMAIN Jobs : jobID = id
          THEN /\ Jobs' = [Jobs EXCEPT ![jobID] = Named(@, jobID)]
               /\ got' = <<[found |-> TRUE, id |-> jobID,
                            Name |-> Named(Jobs[jobID], jobID).Name]>>
               /\ looked' = looked \cup {jobID}
               /\ first' = IF jobID \in DOMAIN first
                              THEN first
                              ELSE (jobID :> Named(Jobs[jobID], jobID).Name) @@ first
          ELSE /\ got' = <<[found |-> FALSE, id |-> jobID, Name |-> ""]>>
               /\ UNCHANGED <<Jobs, looked, first>>
    /\ UNCHANGED <<declared, matrixVars, nodeVars, stepVars>>

InitJobs ==
    /\ Jobs \in UNION {[D -> [Name : JobNames]] : D \in SUBSET JobIDs}
    /\ declared = Jobs
    /\ looked = {}
    /\ got = <<>>
    /\ first = EmptyMap
    /\ IdleMatrix /\ IdleNodes /\ IdleStep

\* the identifiers callers look up: the declared ones and one that is no key
LookupIDs == JobIDs \cup {"lint"}

NextJobs == \E jobID \in LookupIDs : GetJob(jobID)

SpecJobs == InitJobs /\ [][NextJobs]_vars

(***************************************************************************)
(* Polymorphic field normalizer.  A yaml.Node is [Kind, Tag, Value,        *)
(* Content]; the Content of a mapping node lists its key nodes only, the   *)
(* values decode into interface{} whatever they are.                       *)
(***************************************************************************)
MaxContent == 2     \* children of a sequence or mapping node

EventNames == {"push", "pull_request"}

ScalarNode(tag, value) ==
    [Kind |-> "ScalarNode", Tag |-> tag, Value |-> value, Content |-> <<>>]

\* scalars: plain strings, and a !!binary scalar whose value is not base64
Scalars == {ScalarNode("!!str", v) : v \in EventNames}
           \cup {ScalarNode("!!binary", "%")}

\* the children of a sequence: scalars, or a nested mapping
Children == Scalars \cup
            {[Kind |-> "MappingNode", Tag |-> "!!map", Value |-> "", Content |-> <<>>]}

Nodes ==
    Scalars
    \cup {[Kind |-> "SequenceNode", Tag |-> "!!seq", Value |-> "", Content |-> c] :
             c \in SeqUpTo(Children, MaxContent)}
    \cup {[Kind |-> "MappingNode", Tag |-> "!!map", Value |-> "", Content |-> c] :
             c \in SeqUpTo({ScalarNode("!!str", v) : v \in EventNames}, MaxContent)}
    \cup {[Kind |-> "Zero", Tag |-> "", Value |-> "", Content |-> <<>>]}

\* Node.Decode(&val) for val a string: err # nil
ScalarErr(n) == n.Kind # "ScalarNode" \/ n.Tag = "!!binary"

\* Node.Decode(&val) for val a []string: err # nil
SequenceErr(n) == \E i \in DOMAIN n.Content : ScalarErr(n.Content[i])

\* Node.Decode(&val) for val a map[string]interface{}: err # nil on a key
\* defined twice
MappingErr(n) ==
    \E i, j \in DOMAIN n.Content : i # j /\ n.Content[i].Value = n.Content[j].Value

\* the strings a sequence node decodes into
Strings(n) == [i \in DOMAIN n.Content |-> n.Content[i].Value]

\* the keys of the map a mapping node decodes into
Keys(n) == {n.Content[i].Value : i \in DOMAIN n.Content}

\* TRUE when the call ends in log.Fatal
OnFatal(n) ==
    \/ n.Kind = "ScalarNode" /\ ScalarErr(n)
    \/ n.Kind = "SequenceNode" /\ SequenceErr(n)
    \/ n.Kind = "MappingNode" /\ MappingErr(n)

\* the value Workflow.On returns; keys is the order the range visits val
OnValue(n, keys) ==
    IF n.Kind = "ScalarNode" THEN <<n.Value>>
    ELSE IF n.Kind = "SequenceNode" THEN Strings(n)
    ELSE IF n.Kind = "MappingNode" THEN keys
    ELSE <<>>

\* Workflow.On
On ==
    /\ proc = "running"
    /\ IF OnFatal(RawOn)
          THEN proc' = "exited" /\ UNCHANGED onRet
          ELSE /\ \E keys \in Orders(IF RawOn.Kind = "MappingNode"
                                        THEN Keys(RawOn) ELSE {}) :
                      onRet' = <<OnValue(RawOn, keys)>>
               /\ UNCHANGED proc
    /\ UNCHANGED <<RawOn, RawNeeds, needsRet, matrixVars, jobVars, stepVars>>

\* TRUE when the call ends in log.Fatal
NeedsFatal(n) ==
    \/ n.Kind = "ScalarNode" /\ ScalarErr(n)
    \/ n.Kind = "SequenceNode" /\ SequenceErr(n)

\* a variant of Job.Needs without the scalar case
NeedsSequenceOnly(n) ==
    IF n.Kind = "SequenceNode" THEN Strings(n) ELSE <<>>

\* the value Job.Needs returns
NeedsValue(n) ==
    IF n.Kind = "ScalarNode" THEN <<n.Value>>
    ELSE IF n.Kind = "SequenceNode" THEN Strings(n)
    ELSE <<>>

\* Job.Needs
Needs ==
    /\ proc = "running"
    /\ IF NeedsFatal(RawNeeds)
          THEN proc' = "exited" /\ UNCHANGED needsRet
          ELSE needsRet' = <<NeedsValue(RawNeeds)>> /\ UNCHANGED proc
    /\ UNCHANGED <<RawOn, RawNeeds, onRet, matrixVars, jobVars, stepVars>>

InitNodes ==
    /\ RawOn \in Nodes
    /\ RawNeeds \in Nodes
    /\ onRet = <<>>
    /\ needsRet = <<>>
    /\ proc = "running"
    /\ IdleMatrix /\ IdleJobs /\ IdleStep

NextNodes == On \/ Needs

SpecNodes == InitNodes /\ [][NextNodes]_vars

(***************************************************************************)
(* Vocabulary of the matrix claims, stated on the call's input and output. *)
(***************************************************************************)
In  == called[1]                  \* the Strategy the latest call found
Out == returned[Len(returned)]    \* what the latest call returned

BaseAxes(M) == DOMAIN M \ {"include", "exclude"}

Restrict(v, K) == [k \in K |-> v[k]]

\* the combinations of one declared value per base axis
Combos(M) ==
    {c \in [BaseAxes(M) -> UNION {Range(M[k]) : k \in BaseAxes(M)}] :
        \A k \in BaseAxes(M) : c[k] \in Range(M[k])}

RECURSIVE SizeProduct(_, _)
SizeProduct(M, K) ==
    IF K = {} THEN 1
    ELSE LET k == CHOOSE x \in K : TRUE
         IN  Len(M[k]) * SizeProduct(M, K \ {k})

\* partial-key match: every key present in both has equal values
PartialMatch(e, c) == \A k \in DOMAIN e \cap DOMAIN c : e[k] = c[k]

\* the candidates of the call, and those no exclude entry matches
Candidates == CartesianProduct(Stripped(In.Matrix))
Kept ==
    SelectSeq(Candidates,
              LAMBDA c : \A i \in DOMAIN Collect(In.Matrix, "exclude") :
                            ~PartialMatch(Collect(In.Matrix, "exclude")[i], c))

\* C1: with k >= 1 axes and neither include nor exclude, GetMatrixes returns
\* n1*...*nk variants, each mapping exactly the axis names to one value of the
\* axis's list (and every combination is among them).
C1_ProductCount ==
    (/\ called # <<>>
     /\ In.present
     /\ "include" \notin DOMAIN In.Matrix
     /\ "exclude" \notin DOMAIN In.Matrix
     /\ BaseAxes(In.Matrix) # {})
    => /\ Len(Out) = SizeProduct(In.Matrix, BaseAxes(In.Matrix))
       /\ \A i \in DOMAIN Out : Out[i] \in Combos(In.Matrix)
       /\ Range(Out) = Combos(In.Matrix)

C1_Witness ==
    /\ called # <<>>
    /\ In.present
    /\ DOMAIN In.Matrix = {"a", "b"}
    /\ Len(In.Matrix["a"]) = 2
    /\ Len(In.Matrix["b"]) = 2
    /\ Len(Out) = 4

\* C2: a candidate of the product is in the output if and only if no exclude
\* entry partial-key-matches it; matrix={a:[1,2]}, exclude=[{}] yields nothing.
C2_ExcludeIff ==
    (called # <<>> /\ In.present)
    => /\ Len(Out) = Len(Kept)
       /\ \A i \in DOMAIN Out :
             Restrict(Out[i], BaseAxes(In.Matrix)) = Kept[i]
       /\ (In.Matrix = ("a" :> <<1, 2>>) @@ ("exclude" :> <<EmptyMap>>)
             => Out = <<>>)

C2_Witness ==
    /\ called # <<>>
    /\ In.present
    /\ "exclude" \in DOMAIN In.Matrix
    /\ \E i \in DOMAIN In.Matrix["exclude"] : "a" \in DOMAIN In.Matrix["exclude"][i]
    /\ Len(Out) > 0
    /\ Len(Out) < Len(Candidates)

\* the overlay C3 describes: every include that matches the candidate of the
\* product is merged, in declaration order, the last write winning
RECURSIVE LastWriteWins(_, _, _)
LastWriteWins(c, acc, includes) ==
    IF includes = <<>> THEN acc
    ELSE LastWriteWins(c,
                       IF PartialMatch(Head(includes), c)
                          THEN Head(includes) @@ acc
                          ELSE acc,
                       Tail(includes))

\* C3: every kept candidate is emitted overlaid with the keys of every include
\* entry that partial-key-matches the candidate, in declaration order, last
\* write wins; a candidate no include matches is emitted unchanged.  (Stated for
\* a matrix with at least one axis.)
C3_IncludeLastWriteWins ==
    (called # <<>> /\ In.present /\ BaseAxes(In.Matrix) # {})
    => /\ Len(Out) = Len(Kept)
       /\ \A i \in DOMAIN Out :
             Out[i] = LastWriteWins(Kept[i], Kept[i], Collect(In.Matrix, "include"))

\* C4: any two successive GetMatrixes calls on a job with a Strategy return the
\* same sequence of variants.  (Stated for a matrix with at least one axis.)
C4_Repeatable ==
    (strategy.present /\ BaseAxes(strategy.Matrix) # {})
    => \A i \in DOMAIN returned : i > 1 => returned[i] = returned[i - 1]

\* C10: every returned variant, restricted to the base axes, is a combination
\* of the product: each base axis is present with a value of its declared list.
C10_BaseAxesKept ==
    (called # <<>> /\ In.present)
    => \A i \in DOMAIN Out :
          /\ BaseAxes(In.Matrix) \subseteq DOMAIN Out[i]
          /\ Restrict(Out[i], BaseAxes(In.Matrix)) \in Combos(In.Matrix)

C10_Witness ==
    /\ called # <<>>
    /\ In.present
    /\ "a" \in DOMAIN In.Matrix
    /\ "include" \in DOMAIN In.Matrix
    /\ \E i \in DOMAIN Out, n, m \in DOMAIN In.Matrix["include"] :
          /\ "c" \in DOMAIN Out[i]
          /\ DOMAIN In.Matrix["include"][n] = {"a", "c"}
          /\ In.Matrix["include"][n]["a"] = Out[i]["a"]
          /\ DOMAIN In.Matrix["include"][m] = {"a", "c"}
          /\ In.Matrix["include"][m]["a"] # Out[i]["a"]

(***************************************************************************)
(* Claims on the step descriptor.                                          *)
(***************************************************************************)
InputPrefix == <<"I", "N", "P", "U", "T", "_">>

\* the key the amended C5 describes: INPUT_ and the upper-cased name, every
\* character other than A-Z, 0-9 and the hyphen replaced by an underscore
HyphenKeptKey(k) ==
    InputPrefix \o
    [i \in DOMAIN k |->
        IF k[i] = "-" THEN "-"
        ELSE IF ToUpperChar(k[i]) \in Range(UpperCase) \cup Digits
                THEN ToUpperChar(k[i])
                ELSE "_"]

\* C5 (as stated): a hyphen of the parameter name becomes an underscore, so
\* with={"node-version": v} yields the key INPUT_NODE_VERSION with value v.
C5_HyphenBecomesUnderscore ==
    (envRet # <<>> /\ NodeVersion \in DOMAIN step.With)
    => /\ <<"I", "N", "P", "U", "T", "_", "N", "O", "D", "E", "_", "V", "E", "R", "S", "I", "O", "N">> \in DOMAIN envRet[1]
       /\ envRet[1][<<"I", "N", "P", "U", "T", "_", "N", "O", "D", "E", "_", "V", "E", "R", "S", "I", "O", "N">>] = step.With[NodeVersion]

\* C5 (amended): GetEnv maps every input parameter under `with` to the key
\* INPUT_ followed by the upper-cased name in which every character other than
\* A-Z, 0-9 and the hyphen is replaced by '_'; a hyphen is kept, so that
\* with={"node-version": v} yields the key INPUT_NODE-VERSION with value v.
\* The key holds the value of a parameter that derives it.
C5_HyphenKept ==
    envRet # <<>>
    => /\ \A k \in DOMAIN step.With :
             /\ HyphenKeptKey(k) \in DOMAIN envRet[1]
             /\ \E k2 \in DOMAIN step.With :
                   /\ HyphenKeptKey(k2) = HyphenKeptKey(k)
                   /\ envRet[1][HyphenKeptKey(k)] = step.With[k2]
       /\ NodeVersion \in DOMAIN step.With
             => /\ <<"I", "N", "P", "U", "T", "_", "N", "O", "D", "E", "-", "V", "E", "R", "S", "I", "O", "N">> \in DOMAIN envRet[1]
                /\ envRet[1][<<"I", "N", "P", "U", "T", "_", "N", "O", "D", "E", "-", "V", "E", "R", "S", "I", "O", "N">>] = step.With[NodeVersion]

C5_Witness ==
    /\ envRet # <<>>
    /\ NodeVersion \in DOMAIN step.With
    /\ step.With[NodeVersion] = "16"
    /\ envRet[1][<<"I", "N", "P", "U", "T", "_", "N", "O", "D", "E", "-", "V", "E", "R", "S", "I", "O", "N">>] = "16"

C7_LazyName ==
    /\ DOMAIN Jobs = DOMAIN declared
    /\ looked \subseteq DOMAIN Jobs
    /\ \A id \in looked :
          /\ Jobs[id].Name = (IF declared[id].Name # "" THEN declared[id].Name ELSE id)
          /\ first[id] = Jobs[id].Name
    /\ \A id \in DOMAIN Jobs \ looked : Jobs[id] = declared[id]
    /\ got # <<>>
          => /\ got[1].found <=> got[1].id \in DOMAIN declared
             /\ got[1].found => /\ got[1].id \in looked
                                /\ got[1].Name = Jobs[got[1].id].Name
                                /\ got[1].Name = first[got[1].id]

C7_Witness ==
    /\ got # <<>>
    /\ ~got[1].found
    /\ \E id \in looked : declared[id].Name = "" /\ Jobs[id].Name = id
    /\ \E id \in looked : declared[id].Name = "Build" /\ Jobs[id].Name = "Build"
    /\ \E id \in DOMAIN Jobs \ looked : Jobs[id].Name = ""

(***************************************************************************)
(* Claims on the field normalizer.                                         *)
(***************************************************************************)
\* what both fields return for a scalar and for a sequence of scalars
ScalarOrSequence(n, ret) ==
    /\ n.Kind = "ScalarNode" => ret = <<n.Value>>
    /\ n.Kind = "SequenceNode"
          => /\ Len(ret) = Len(n.Content)
             /\ \A i \in DOMAIN ret : ret[i] = n.Content[i].Value

\* a sequence holding exactly the keys of the mapping, in some order
ExactlyTheKeys(n, ret) ==
    /\ Range(ret) = {n.Content[i].Value : i \in DOMAIN n.Content}
    /\ Len(ret) = Len(n.Content)

C8_NeverAborts == proc = "running"

====
